---- MODULE Spec2Model ----
(***************************************************************************)
(* GeminiImageGenerator (src/src/components/GeminiImageGenerator.tsx):     *)
(* the React component's state, its event handlers with the values their   *)
(* closures capture, the asynchronous continuations of handleGenerate and  *)
(* onSourceFileChange, and the response extractor (fast-path regular       *)
(* expression, JSON.parse, findData, atob).                                *)
(*                                                                         *)
(* Text is modelled at the level of JSON tokens.  A string token carries   *)
(* its raw characters (what the regular expression reads); JSON.parse      *)
(* reads the unescaped characters.  A character is a one-character string; *)
(* the elements "\\u0061" and "\\\"" stand for the raw characters of an      *)
(* escaped a and of an escaped quotation mark.  White space between tokens  *)
(* is left out: the pattern's \s* and JSON.parse both skip it.              *)
(*                                                                         *)
(* A handler invoked by the page reads the state of the latest render; the *)
(* continuation of an asynchronous handler reads the state its closure     *)
(* captured when the handler was invoked.                                  *)
(***************************************************************************)
EXTENDS Integers, Sequences, FiniteSets, TLC

\* ------------------------------------------------------------------ bounds

\* longest response body, in JSON tokens, that the server is taken to send
MaxTokens == 9
\* longest string, in characters, handed to atob in the decoding cases
MaxB64Len == 4
\* longest of the two JSON texts that the longer response bodies are made of
MaxPart == 5
\* invocations of the asynchronous handlers (handleGenerate and
\* onSourceFileChange together) in one behaviour
MaxCalls == 3

\* ------------------------------------------------------------- characters

Chr(c) == <<c>>
DATA == <<"d", "a", "t", "a">>
DATA_ESC == <<"d", "\\u0061", "t", "a">>
\* the field name a"data, written "a\"data"
QUOTE_ESC == "\\\""
KEY_QDATA == <<"a", QUOTE_ESC, "d", "a", "t", "a">>
KEY_A == <<"a">>
B64_OK == <<"Q", "Q", "=", "=">>
B64_BAD == <<"Q">>

\* ----------------------------------------------------------------- tokens

Tok(t, raw) == [t |-> t, raw |-> raw]
LB == Tok("lb", <<>>)
RB == Tok("rb", <<>>)
LS == Tok("ls", <<>>)
RS == Tok("rs", <<>>)
COLON == Tok("colon", <<>>)
COMMA == Tok("comma", <<>>)
NULLTOK == Tok("null", <<>>)
Str(raw) == Tok("str", raw)

\* ------------------------------------------------------- JSON.parse model

\* the characters a JSON string literal denotes
Unescape(raw) ==
  [i \in DOMAIN raw |-> CASE raw[i] = "\\u0061" -> "a"
                          [] raw[i] = QUOTE_ESC -> "\""
                          [] OTHER -> raw[i]]

\* JavaScript values: strings, null, objects (members in insertion order), arrays
StrV(s) == [kind |-> "str", s |-> s, members |-> <<>>]
NullV == [kind |-> "null", s |-> <<>>, members |-> <<>>]
ObjV(ms) == [kind |-> "obj", s |-> <<>>, members |-> ms]
ArrV(ms) == [kind |-> "arr", s |-> <<>>, members |-> ms]
Member(k, v) == [k |-> k, v |-> v]

HasKey(ms, k) == \E i \in DOMAIN ms : ms[i].k = k
KeyIndex(ms, k) == CHOOSE i \in DOMAIN ms : ms[i].k = k
\* obj[k] = v: a repeated key keeps its first position and takes the last value
Put(ms, k, v) ==
  IF HasKey(ms, k)
  THEN [ms EXCEPT ![KeyIndex(ms, k)] = Member(k, v)]
  ELSE Append(ms, Member(k, v))

ParseFail == [ok |-> FALSE, v |-> NullV, next |-> 0]
ParseOk(v, next) == [ok |-> TRUE, v |-> v, next |-> next]
TokAt(toks, i) == IF i \in DOMAIN toks THEN toks[i] ELSE Tok("eof", <<>>)

RECURSIVE ParseValue(_, _)
RECURSIVE ParseMembers(_, _, _)
RECURSIVE ParseElements(_, _, _)

ParseMembers(toks, i, acc) ==
  IF TokAt(toks, i).t = "str" /\ TokAt(toks, i + 1).t = "colon"
  THEN LET r == ParseValue(toks, i + 2)
           ms == Put(acc, Unescape(toks[i].raw), r.v)
       IN  IF ~r.ok THEN ParseFail
           ELSE IF TokAt(toks, r.next).t = "comma" THEN ParseMembers(toks, r.next + 1, ms)
           ELSE IF TokAt(toks, r.next).t = "rb" THEN ParseOk(ObjV(ms), r.next + 1)
           ELSE ParseFail
  ELSE ParseFail

ParseElements(toks, i, acc) ==
  LET r == ParseValue(toks, i)
      ms == Append(acc, Member(Chr(ToString(Len(acc))), r.v))
  IN  IF ~r.ok THEN ParseFail
      ELSE IF TokAt(toks, r.next).t = "comma" THEN ParseElements(toks, r.next + 1, ms)
      ELSE IF TokAt(toks, r.next).t = "rs" THEN ParseOk(ArrV(ms), r.next + 1)
      ELSE ParseFail

ParseValue(toks, i) ==
  LET t == TokAt(toks, i).t
  IN  CASE t = "str" -> ParseOk(StrV(Unescape(toks[i].raw)), i + 1)
        [] t = "null" -> ParseOk(NullV, i + 1)
        [] t = "lb" -> IF TokAt(toks, i + 1).t = "rb"
                       THEN ParseOk(ObjV(<<>>), i + 2)
                       ELSE ParseMembers(toks, i + 1, <<>>)
        [] t = "ls" -> IF TokAt(toks, i + 1).t = "rs"
                       THEN ParseOk(ArrV(<<>>), i + 2)
                       ELSE ParseElements(toks, i + 1, <<>>)
        [] OTHER -> ParseFail

\* JSON.parse(text): ok = FALSE stands for the SyntaxError it throws
JSONparse(toks) ==
  LET r == ParseValue(toks, 1)
  IN  IF r.ok /\ r.next = Len(toks) + 1 THEN r ELSE ParseFail

\* ------------------------------------------------------------ the extractor

\* a value that may be null: base64: string | null
NullStr == [isNull |-> TRUE, s |-> <<>>]
SomeStr(s) == [isNull |-> FALSE, s |-> s]
\* JavaScript truthiness of string | null
Truthy(x) == ~x.isNull /\ x.s # <<>>

IsObject(v) == v.kind \in {"obj", "arr"}
\* typeof val === "object" also holds of null
TypeofObject(v) == v.kind \in {"obj", "arr", "null"}
\* typeof obj.data === "string"
DataIsString(v) ==
  v.kind = "obj" /\ HasKey(v.members, DATA) /\ v.members[KeyIndex(v.members, DATA)].v.kind = "str"

RECURSIVE findData(_)
RECURSIVE findDataKeys(_, _)

\* the for loop over Object.keys(obj), from key number i on
findDataKeys(ms, i) ==
  IF i > Len(ms) THEN NullStr
  ELSE IF TypeofObject(ms[i].v) /\ Truthy(findData(ms[i].v)) THEN findData(ms[i].v)
  ELSE findDataKeys(ms, i + 1)

findData(obj) ==
  IF ~IsObject(obj) THEN NullStr
  ELSE IF DataIsString(obj) THEN SomeStr(obj.members[KeyIndex(obj.members, DATA)].v.s)
  ELSE findDataKeys(obj.members, 1)

MinOf(S) == CHOOSE i \in S : \A j \in S : i <= j
\* "data" ends the raw text of a string literal: the literal is "data", or the
\* quotation mark of an escaped one is followed by data and the closing mark
EndsInData(raw) ==
  \/ raw = DATA
  \/ Len(raw) > 4 /\ raw[Len(raw) - 4] = QUOTE_ESC /\ SubSeq(raw, Len(raw) - 3, Len(raw)) = DATA
\* ([^"]*): the raw characters up to the first quotation mark, which is the
\* closing one or that of the first escaped one (its backslash is captured)
Captured(raw) ==
  IF \E k \in DOMAIN raw : raw[k] = QUOTE_ESC
  THEN SubSeq(raw, 1, MinOf({k \in DOMAIN raw : raw[k] = QUOTE_ESC}) - 1) \o <<"\\">>
  ELSE raw
\* the positions where /"data"\s*:\s*"([^"]*)"/ matches the raw text
MatchAt(toks, i) ==
  /\ i + 2 \in DOMAIN toks
  /\ toks[i].t = "str" /\ EndsInData(toks[i].raw)
  /\ toks[i + 1].t = "colon"
  /\ toks[i + 2].t = "str"
Matches(toks) == {i \in DOMAIN toks : MatchAt(toks, i)}
\* [mutant] the last match instead of the leftmost
LastMatch(toks) ==
  IF Matches(toks) = {} THEN [matched |-> FALSE, at |-> 0, group |-> <<>>]
  ELSE LET i == CHOOSE k \in Matches(toks) : \A j \in Matches(toks) : j <= k
       IN  [matched |-> TRUE, at |-> i, group |-> Captured(toks[i + 2].raw)]

\* text.match(...): the leftmost match, match[1] its capture group
FirstMatch(toks) ==
  IF Matches(toks) = {} THEN [matched |-> FALSE, at |-> 0, group |-> <<>>]
  ELSE [matched |-> TRUE, at |-> MinOf(Matches(toks)),
        group |-> Captured(toks[MinOf(Matches(toks)) + 2].raw)]

\* lines 187-212: base64 and the strategy that produced it
FallbackSearch(toks) ==
  IF JSONparse(toks).ok
  THEN [base64 |-> findData(JSONparse(toks).v), via |-> "fallback"]
  ELSE [base64 |-> NullStr, via |-> "none"]

\* [mutant] the JSON search first, the pattern only when it finds nothing
ExtractParseFirst(toks) ==
  IF Truthy(FallbackSearch(toks).base64) THEN FallbackSearch(toks)
  ELSE IF FirstMatch(toks).matched /\ FirstMatch(toks).group # <<>>
  THEN [base64 |-> SomeStr(FirstMatch(toks).group), via |-> "fast"]
  ELSE FallbackSearch(toks)

Extract(toks) ==
  LET match == FirstMatch(toks)
  IN  IF match.matched /\ match.group # <<>>
      THEN [base64 |-> SomeStr(match.group), via |-> "fast"]
      ELSE FallbackSearch(toks)

\* ------------------------------------------------------------------- atob

\* of the sixty-four characters, those the strings of the model are made of
B64Alphabet == {"Q"}
Whitespace == {" "}
RECURSIVE StripWs(_)
StripWs(s) ==
  IF s = <<>> THEN <<>>
  ELSE IF Head(s) \in Whitespace THEN StripWs(Tail(s))
  ELSE <<Head(s)>> \o StripWs(Tail(s))
StripPad(s) ==
  IF Len(s) > 0 /\ Len(s) % 4 = 0
  THEN IF s[Len(s)] = "=" /\ s[Len(s) - 1] = "="
       THEN SubSeq(s, 1, Len(s) - 2)
       ELSE IF s[Len(s)] = "=" THEN SubSeq(s, 1, Len(s) - 1) ELSE s
  ELSE s
\* atob(base64): ok = FALSE stands for the InvalidCharacterError it throws,
\* len is the length of the binary string
atob(s) ==
  LET d == StripPad(StripWs(s))
  IN  IF Len(d) % 4 = 1 \/ (\E i \in DOMAIN d : d[i] \notin B64Alphabet)
      THEN [ok |-> FALSE, len |-> 0]
      ELSE [ok |-> TRUE, len |-> (Len(d) * 6) \div 8]

\* new Blob([bytes], { type: contentType }) with contentType = "image/png"
NoBlob == [size |-> -1, type |-> "none"]
base64ToBlob(s) ==
  IF atob(s).ok
  THEN [ok |-> TRUE, blob |-> [size |-> atob(s).len, type |-> "image/png"]]
  ELSE [ok |-> FALSE, blob |-> NoBlob]

\* ------------------------------------------------------- response bodies

\* The body that await res.text() yields (line 184) arrives token by token and
\* may end anywhere: it is a prefix, of at most MaxTokens tokens, of a
\* well-formed JSON token stream.  A complete stream is valid JSON, a proper
\* prefix is a truncated body that JSON.parse rejects.
KeyStrings == {DATA, KEY_A, DATA_ESC, KEY_QDATA}
ValueStrings == {<<>>, B64_OK, B64_BAD}

Prefix(toks, stack, st) == [toks |-> toks, stack |-> stack, st |-> st]
AfterValue(stack) == IF stack = <<>> THEN "done" ELSE "afterValue"
ValueSteps(p) ==
  {Prefix(Append(p.toks, Str(v)), p.stack, AfterValue(p.stack)) : v \in ValueStrings}
  \cup {Prefix(Append(p.toks, NULLTOK), p.stack, AfterValue(p.stack)),
        Prefix(Append(p.toks, LB), <<"obj">> \o p.stack, "keyOrEnd"),
        Prefix(Append(p.toks, LS), <<"arr">> \o p.stack, "valueOrEnd")}
KeySteps(p) == {Prefix(Append(p.toks, Str(k)), p.stack, "colon") : k \in KeyStrings}
CloseStep(p, tok) ==
  {Prefix(Append(p.toks, tok), Tail(p.stack), AfterValue(Tail(p.stack)))}
Steps(p) ==
  CASE p.st = "value" -> ValueSteps(p)
    [] p.st = "valueOrEnd" -> ValueSteps(p) \cup CloseStep(p, RS)
    [] p.st = "keyOrEnd" -> KeySteps(p) \cup CloseStep(p, RB)
    [] p.st = "key" -> KeySteps(p)
    [] p.st = "colon" -> {Prefix(Append(p.toks, COLON), p.stack, "value")}
    [] p.st = "afterValue" ->
         IF Head(p.stack) = "obj"
         THEN {Prefix(Append(p.toks, COMMA), p.stack, "key")} \cup CloseStep(p, RB)
         ELSE {Prefix(Append(p.toks, COMMA), p.stack, "value")} \cup CloseStep(p, RS)
    [] OTHER -> {}
EmptyWire == Prefix(<<>>, <<>>, "value")

\* {"data": "<s>"}
DataText(s) == <<LB, Str(DATA), COLON, Str(s), RB>>
\* {"candidates":[{"content":{"parts":[{"inlineData":{"data":"<s>"}}]}}]}
CandidatesText(s) ==
  <<LB, Str(<<"candidates">>), COLON, LS, LB, Str(<<"content">>), COLON, LB,
    Str(<<"parts">>), COLON, LS, LB, Str(<<"inlineData">>), COLON>>
  \o DataText(s) \o <<RB, RS, RB, RB, RS, RB>>
\* the bodies the server sends in the behaviours of the whole component
SampleTexts == {CandidatesText(B64_OK), DataText(B64_BAD), <<LB, RB>>}
\* the well-formed prefixes of n tokens
RECURSIVE Prefixes(_)
Prefixes(n) ==
  IF n = 0 THEN {EmptyWire}
  ELSE UNION {Steps(p) : p \in Prefixes(n - 1)}
\* the complete JSON texts of at most MaxPart tokens
Parts == UNION {{p.toks : p \in {q \in Prefixes(n) : q.st = "done"}} : n \in 1..MaxPart}
\* [<b1>,<b2>]   {"a":<b1>,"data":<b2>}   {"a":{"a":<b1>,"data":<b2>}}
InArray(b1, b2) == <<LS>> \o b1 \o <<COMMA>> \o b2 \o <<RS>>
InObject(b1, b2) == <<LB, Str(KEY_A), COLON>> \o b1 \o <<COMMA, Str(DATA), COLON>> \o b2 \o <<RB>>
InInner(b1, b2) == <<LB, Str(KEY_A), COLON>> \o InObject(b1, b2) \o <<RB>>
\* the longer bodies: two complete texts side by side in an array or an object
PairTexts ==
  UNION {{InArray(b1, b2), InObject(b1, b2), InInner(b1, b2)} : b1 \in Parts, b2 \in Parts}
  \cup {CandidatesText(s) : s \in ValueStrings}

\* the strings of at most MaxB64Len characters
B64Chars == {"Q", "=", "!", " "}
B64Strings == UNION {[1..n -> B64Chars] : n \in 0..MaxB64Len}

\* ------------------------------------------------------ component state

VARIABLES
  mounted,            \* the component is mounted
  apiKey,             \* useState, line 49
  prompt,             \* useState, line 56
  loading,            \* useState, line 59
  generatedImageUrl,  \* useState, line 62: an object URL or Null
  generatedImageBlob, \* useState, line 63
  sourceFile,         \* useState, line 66
  sourceBase64,       \* useState, line 67
  sourceMime,         \* useState, line 68
  sourcePreviewUrl,   \* useState, line 69: an object URL or Null
  handles,            \* the object URLs created so far: slot and whether revoked
  gens,               \* the handleGenerate invocations, in order of invocation
  reads,              \* the onSourceFileChange invocations, in order of invocation
  toasts,             \* the loading notifications on screen (by invocation)
  wire                \* the response body received so far

vars == <<mounted, apiKey, prompt, loading, generatedImageUrl, generatedImageBlob,
          sourceFile, sourceBase64, sourceMime, sourcePreviewUrl, handles, gens,
          reads, toasts, wire>>

Null == 0
ApiKeys == {"", "k"}
Prompts == {"", "p"}
Files == {"a.png", "empty.txt"}
NoFile == "none"
NoMime == "null"
\* reader.result of readAsDataURL(file) is data:<mime>;base64,<DATA>
FileMime(f) == IF f = "a.png" THEN "image/png" ELSE "text/plain"
FileData(f) == IF f = "a.png" THEN B64_OK ELSE <<>>

\* URL.createObjectURL / URL.revokeObjectURL
Handle(slot) == [slot |-> slot, revoked |-> FALSE]
Revoke(hs, h) == IF h \in DOMAIN hs THEN [hs EXCEPT ![h].revoked = TRUE] ELSE hs
Unreleased(slot) == {h \in DOMAIN handles : handles[h].slot = slot /\ ~handles[h].revoked}

\* the values the cleanup effect's closure holds: those of the first render
\* (the effect has no dependencies, lines 72-78)
CleanupGeneratedImageUrl == Null
CleanupSourcePreviewUrl == Null

Init ==
  /\ mounted = TRUE
  /\ apiKey \in ApiKeys
  /\ prompt = "p"
  /\ loading = FALSE
  /\ generatedImageUrl = Null
  /\ generatedImageBlob = NoBlob
  /\ sourceFile = NoFile
  /\ sourceBase64 = NullStr
  /\ sourceMime = NoMime
  /\ sourcePreviewUrl = Null
  /\ handles = <<>>
  /\ gens = <<>>
  /\ reads = <<>>
  /\ toasts = {}
  /\ wire = EmptyWire

\* --------------------------------------------------------- form fields

\* onChange of the API key input, lines 253-255
SetApiKey(v) ==
  /\ mounted /\ v # apiKey
  /\ apiKey' = v
  /\ UNCHANGED <<mounted, prompt, loading, generatedImageUrl, generatedImageBlob,
                 sourceFile, sourceBase64, sourceMime, sourcePreviewUrl, handles,
                 gens, reads, toasts, wire>>

\* onChange of the prompt textarea, line 272
SetPrompt(v) ==
  /\ mounted /\ v # prompt
  /\ prompt' = v
  /\ UNCHANGED <<mounted, apiKey, loading, generatedImageUrl, generatedImageBlob,
                 sourceFile, sourceBase64, sourceMime, sourcePreviewUrl, handles,
                 gens, reads, toasts, wire>>

\* ----------------------------------------------------- generated image

\* clearGeneratedImage, lines 89-95, with the generatedImageUrl its closure holds
clearGeneratedImage(hs, url) == IF url # Null THEN Revoke(hs, url) ELSE hs

\* the "Limpiar resultado" button, lines 340-348
ClearResult ==
  /\ mounted /\ generatedImageUrl # Null /\ ~loading
  /\ handles' = clearGeneratedImage(handles, generatedImageUrl)
  /\ generatedImageUrl' = Null
  /\ generatedImageBlob' = NoBlob
  /\ UNCHANGED <<mounted, apiKey, prompt, loading, sourceFile, sourceBase64,
                 sourceMime, sourcePreviewUrl, gens, reads, toasts, wire>>

\* -------------------------------------------------------- source image

\* clearSourceImage, lines 97-105: "Eliminar imagen", or a file input left empty
ClearSourceImage ==
  /\ mounted
  /\ sourceFile' = NoFile
  /\ sourceBase64' = NullStr
  /\ sourceMime' = NoMime
  /\ handles' = IF sourcePreviewUrl # Null THEN Revoke(handles, sourcePreviewUrl) ELSE handles
  /\ sourcePreviewUrl' = Null
  /\ UNCHANGED <<mounted, apiKey, prompt, loading, generatedImageUrl,
                 generatedImageBlob, gens, reads, toasts, wire>>

\* one invocation: the file and the sourcePreviewUrl its closure holds, and, once
\* it has ended, the notification shown and the object URL created
ReadTask(f, url) == [pc |-> "reading", file |-> f, capPreview |-> url, shown |-> "none", url |-> Null]
ReadDone(shown, url) == [pc |-> "done", file |-> NoFile, capPreview |-> Null, shown |-> shown, url |-> url]

\* onSourceFileChange up to its await, lines 107-113: the closure holds the
\* sourcePreviewUrl of the render the file was chosen in
SelectFile(f) ==
  /\ mounted /\ Len(gens) + Len(reads) < MaxCalls
  /\ reads' = Append(reads, ReadTask(f, sourcePreviewUrl))
  /\ UNCHANGED <<mounted, apiKey, prompt, loading, generatedImageUrl, generatedImageBlob,
                 sourceFile, sourceBase64, sourceMime, sourcePreviewUrl, handles,
                 gens, toasts, wire>>

\* the revocation of lines 117-119, of the captured sourcePreviewUrl
RevokeOldPreview(hs, url) == IF url # Null THEN Revoke(hs, url) ELSE hs

\* reader.onload, then lines 113-123
FileLoaded(r) ==
  /\ r \in DOMAIN reads /\ reads[r].pc = "reading"
  /\ LET preview == Len(handles) + 1
     IN  /\ handles' = RevokeOldPreview(Append(handles, Handle("source")), reads[r].capPreview)
         /\ reads' = [reads EXCEPT ![r] = ReadDone("none", preview)]
         /\ IF mounted
            THEN /\ sourceFile' = reads[r].file
                 /\ sourceBase64' = SomeStr(FileData(reads[r].file))
                 /\ sourceMime' = FileMime(reads[r].file)
                 /\ sourcePreviewUrl' = preview
            ELSE UNCHANGED <<sourceFile, sourceBase64, sourceMime, sourcePreviewUrl>>
  /\ UNCHANGED <<mounted, apiKey, prompt, loading, generatedImageUrl,
                 generatedImageBlob, gens, toasts, wire>>

\* reader.onerror, then the catch of lines 124-127
FileFailed(r) ==
  /\ r \in DOMAIN reads /\ reads[r].pc = "reading"
  /\ reads' = [reads EXCEPT ![r] = ReadDone("errFile", Null)]
  /\ UNCHANGED <<mounted, apiKey, prompt, loading, generatedImageUrl, generatedImageBlob,
                 sourceFile, sourceBase64, sourceMime, sourcePreviewUrl, handles,
                 gens, toasts, wire>>

\* ------------------------------------------------------- handleGenerate

\* [mutant] the prompt is not checked
ValidationKeyOnly(key, prm) == IF key = "" THEN "errKey" ELSE "none"

\* the checks of lines 131-138: the notification shown, "none" when both pass
Validation(key, prm) ==
  IF key = "" THEN "errKey" ELSE IF prm = "" THEN "errPrompt" ELSE "none"

\* lines 147-154: the request carries an inline_data part
HasInlineData(b64, mime) == Truthy(b64) /\ mime \notin {NoMime, ""}

\* one invocation: the values its closure holds (key, prm, capUrl), the request
\* (calls, inline), what the network answered (net), the locals text and base64,
\* the strategy that set base64 (via), the notification it ended with (shown)
\* and the object URL it created (url)
GenTask(pc, v, calls) ==
  [pc |-> pc, capUrl |-> generatedImageUrl,
   calls |-> calls, inline |-> HasInlineData(sourceBase64, sourceMime),
   net |-> "none", text |-> <<>>, base64 |-> NullStr, via |-> "none",
   shown |-> v, url |-> Null]

\* handleGenerate up to its first await, lines 130-172
HandleGenerate ==
  /\ mounted /\ Len(gens) + Len(reads) < MaxCalls
  /\ IF Validation(apiKey, prompt) # "none"
     THEN /\ gens' = Append(gens, GenTask("done", Validation(apiKey, prompt), 0))
          /\ UNCHANGED <<loading, toasts>>
     ELSE /\ loading' = TRUE
          /\ toasts' = toasts \cup {Len(gens) + 1}
          /\ gens' = Append(gens, GenTask("fetch", "none", 1))
  /\ UNCHANGED <<mounted, apiKey, prompt, generatedImageUrl, generatedImageBlob,
                 sourceFile, sourceBase64, sourceMime, sourcePreviewUrl, handles,
                 reads, wire>>

\* the "Generar imagen" button, disabled={loading}, lines 335-338
GenerateButton == ~loading /\ HandleGenerate

\* [mutant] setLoading(false) is forgotten
LoadingStays == loading

\* setLoading(false); React drops the update once the component is unmounted
LoadingOff == IF mounted THEN FALSE ELSE loading

\* fetch rejects: the catch of lines 232-239
FetchRejected(t) ==
  /\ t \in DOMAIN gens /\ gens[t].pc = "fetch"
  /\ toasts' = toasts \ {t}
  /\ gens' = [gens EXCEPT ![t].pc = "done", ![t].net = "rejected", ![t].shown = "errConnect"]
  /\ loading' = LoadingOff
  /\ UNCHANGED <<mounted, apiKey, prompt, generatedImageUrl, generatedImageBlob,
                 sourceFile, sourceBase64, sourceMime, sourcePreviewUrl, handles,
                 reads, wire>>

\* fetch resolves: dismissToast, res.ok read, res.text() awaited, lines 174-184
FetchResolved(t, ok) ==
  /\ t \in DOMAIN gens /\ gens[t].pc = "fetch"
  /\ toasts' = toasts \ {t}
  /\ gens' = [gens EXCEPT ![t].pc = "body", ![t].net = IF ok THEN "ok" ELSE "notok"]
  /\ UNCHANGED <<mounted, apiKey, prompt, loading, generatedImageUrl, generatedImageBlob,
                 sourceFile, sourceBase64, sourceMime, sourcePreviewUrl, handles,
                 reads, wire>>

\* res.text() rejects: the catch of lines 232-239
BodyRejected(t) ==
  /\ t \in DOMAIN gens /\ gens[t].pc = "body"
  /\ toasts' = toasts \ {t}
  /\ gens' = [gens EXCEPT ![t].pc = "done", ![t].net = "bodyfail", ![t].shown = "errConnect"]
  /\ loading' = LoadingOff
  /\ UNCHANGED <<mounted, apiKey, prompt, generatedImageUrl, generatedImageBlob,
                 sourceFile, sourceBase64, sourceMime, sourcePreviewUrl, handles,
                 reads, wire>>

\* [mutant] base64ToBlob is called outside the inner try: its exception reaches
\* the catch of line 232
OutcomeOuterCatch(base64) ==
  IF ~Truthy(base64) THEN "errNotFound"
  ELSE IF ~base64ToBlob(base64.s).ok THEN "errConnect"
  ELSE "success"

\* lines 214-231: the notification the attempt ends with, given base64
Outcome(base64) ==
  IF ~Truthy(base64) THEN "errNotFound"
  ELSE IF ~base64ToBlob(base64.s).ok THEN "errDecode"
  ELSE "success"

\* [mutant] clearGeneratedImage is called before base64ToBlob
HandlesAfterClearFirst(hs, cap, outcome) ==
  IF outcome = "success"
  THEN Append(clearGeneratedImage(hs, cap), Handle("generated"))
  ELSE IF outcome = "errDecode" THEN clearGeneratedImage(hs, cap)
  ELSE hs

\* lines 222-224: the object URLs after the attempt, cap the captured generatedImageUrl
HandlesAfter(hs, cap, outcome) ==
  IF outcome = "success"
  THEN Append(clearGeneratedImage(hs, cap), Handle("generated"))
  ELSE hs

\* [mutant] an image is kept once shown: a later result is dropped
UrlAfterIfEmpty(cur, url, outcome) ==
  IF outcome = "success" /\ mounted /\ cur = Null THEN url ELSE cur

\* lines 223-226: generatedImageUrl after the attempt, cur its value before and
\* url the object URL just created; React drops the updates once unmounted
UrlAfter(cur, url, outcome) == IF outcome = "success" /\ mounted THEN url ELSE cur

\* res.text() resolves with text: lines 176-182 (status not ok), 184-231 (ok)
Respond(t, text) ==
  /\ t \in DOMAIN gens /\ gens[t].pc = "body"
  /\ IF gens[t].net = "notok"
     THEN /\ gens' = [gens EXCEPT ![t].pc = "done", ![t].shown = "errApi"]
          /\ UNCHANGED <<handles, generatedImageUrl, generatedImageBlob>>
     ELSE LET e == Extract(text)
              outcome == Outcome(e.base64)
              url == Len(handles) + 1
          IN  /\ handles' = HandlesAfter(handles, gens[t].capUrl, outcome)
              /\ gens' = [gens EXCEPT ![t].pc = "done", ![t].text = text,
                                      ![t].base64 = e.base64, ![t].via = e.via,
                                      ![t].shown = outcome,
                                      ![t].url = IF outcome = "success" THEN url ELSE Null]
              /\ generatedImageUrl' = UrlAfter(generatedImageUrl, url, outcome)
              /\ generatedImageBlob' =
                   IF UrlAfter(generatedImageUrl, url, outcome) = url
                   THEN base64ToBlob(e.base64.s).blob
                   ELSE generatedImageBlob
  /\ loading' = LoadingOff
  /\ UNCHANGED <<mounted, apiKey, prompt, sourceFile, sourceBase64, sourceMime,
                 sourcePreviewUrl, reads, toasts, wire>>

\* the body is one of the sample bodies
BodyResolved(t) == \E text \in SampleTexts : Respond(t, text)

\* ------------------------------------------------------------- teardown

\* the cleanup of the mount effect, lines 72-78
Unmount ==
  /\ mounted
  /\ mounted' = FALSE
  /\ handles' = clearGeneratedImage(RevokeOldPreview(handles, CleanupSourcePreviewUrl),
                                    CleanupGeneratedImageUrl)
  /\ UNCHANGED <<apiKey, prompt, loading, generatedImageUrl, generatedImageBlob,
                 sourceFile, sourceBase64, sourceMime, sourcePreviewUrl, gens,
                 reads, toasts, wire>>

\* ------------------------------------------------------- specifications

SettleGenerate ==
  \/ \E t \in DOMAIN gens : FetchRejected(t)
  \/ \E t \in DOMAIN gens, ok \in BOOLEAN : FetchResolved(t, ok)
  \/ \E t \in DOMAIN gens : BodyRejected(t)
  \/ \E t \in DOMAIN gens : BodyResolved(t)

SettleSource ==
  \/ \E r \in DOMAIN reads : FileLoaded(r)
  \/ \E r \in DOMAIN reads : FileFailed(r)

UserGenerate ==
  \/ \E v \in ApiKeys : SetApiKey(v)
  \/ \E v \in Prompts : SetPrompt(v)
  \/ ClearResult
  \/ Unmount

UserSource ==
  \/ ClearSourceImage
  \/ \E f \in Files : SelectFile(f)

\* the component as the page drives it
Next == GenerateButton \/ UserGenerate \/ UserSource \/ SettleGenerate \/ SettleSource
Spec == Init /\ [][Next]_vars

\* the generation side alone (the source image is left as it is), with
\* handleGenerate invoked whatever the button shows: the handler itself does
\* not look at loading (lines 130-141)
NextReentrant == HandleGenerate \/ UserGenerate \/ SettleGenerate
SpecReentrant == Init /\ [][NextReentrant]_vars

\* the generation side alone, driven by the button; the network answers every
\* request
NextGenerate == GenerateButton \/ UserGenerate \/ SettleGenerate
Fairness ==
  \A t \in 1..MaxCalls :
    /\ WF_vars(FetchRejected(t) \/ FetchResolved(t, TRUE) \/ FetchResolved(t, FALSE))
    /\ WF_vars(BodyRejected(t) \/ BodyResolved(t))
SpecLive == Init /\ [][NextGenerate]_vars /\ Fairness

\* ------------------------------------------- one request and its response

\* the state after the first click on "Generar imagen" with a key entered
InitInFlight ==
  /\ mounted = TRUE
  /\ apiKey = "k"
  /\ prompt = "p"
  /\ loading = TRUE
  /\ generatedImageUrl = Null
  /\ generatedImageBlob = NoBlob
  /\ sourceFile = NoFile
  /\ sourceBase64 = NullStr
  /\ sourceMime = NoMime
  /\ sourcePreviewUrl = Null
  /\ handles = <<>>
  /\ gens = <<GenTask("fetch", "none", 1)>>
  /\ reads = <<>>
  /\ toasts = {1}
  /\ wire = EmptyWire

\* one more token of the response body arrives
RecvToken ==
  /\ \E t \in DOMAIN gens : gens[t].pc = "body" /\ gens[t].net = "ok"
  /\ Len(wire.toks) < MaxTokens
  /\ wire' \in Steps(wire)
  /\ UNCHANGED <<mounted, apiKey, prompt, loading, generatedImageUrl, generatedImageBlob,
                 sourceFile, sourceBase64, sourceMime, sourcePreviewUrl, handles, gens,
                 reads, toasts>>

\* the body ends: res.text() resolves with what arrived
BodyEnd(t) == Respond(t, wire.toks)

\* the body is {"data": "<s>"} for a string s of at most MaxB64Len characters
BodyOfString(t) == wire = EmptyWire /\ \E s \in B64Strings : Respond(t, DataText(s))

\* the body is one of the longer bodies
BodyOfParts(t) == wire = EmptyWire /\ \E text \in PairTexts : Respond(t, text)

NextExtract ==
  \/ \E t \in DOMAIN gens : FetchResolved(t, TRUE)
  \/ RecvToken
  \/ \E t \in DOMAIN gens : BodyEnd(t)
  \/ \E t \in DOMAIN gens : BodyOfString(t)
  \/ \E t \in DOMAIN gens : BodyOfParts(t)
SpecExtract == InitInFlight /\ [][NextExtract]_vars

\* ================================================================ claims

Done(t) == t \in DOMAIN gens /\ gens[t].pc = "done"
InFlight(t) == t \in DOMAIN gens /\ gens[t].pc # "done"
\* attempt t ends in this step
Finishes(t) == t \in DOMAIN gens' /\ gens'[t].pc = "done" /\ ~Done(t)
\* handleGenerate is invoked in this step
Invoked == Len(gens') = Len(gens) + 1
ErrorNotices == {"errKey", "errPrompt", "errConnect", "errApi", "errNotFound", "errDecode"}

\* C1: handleGenerate invoked while the credential or the prompt is empty issues
\* no network call, shows a validation error and returns at once: the loading
\* flag and the loading notifications are as they were.
C1_ValidationFailsFast ==
  [][(Invoked /\ (apiKey = "" \/ prompt = ""))
       => /\ gens'[Len(gens')].calls = 0
          /\ gens'[Len(gens')].pc = "done"
          /\ gens'[Len(gens')].shown = (IF apiKey = "" THEN "errKey" ELSE "errPrompt")
          /\ loading' = loading
          /\ toasts' = toasts]_vars

\* an attempt refused for an empty key and one refused for an empty prompt
C1_Witness ==
  \E t, u \in DOMAIN gens :
    /\ gens[t].shown = "errKey" /\ gens[t].calls = 0
    /\ gens[u].shown = "errPrompt" /\ gens[u].calls = 0
    /\ ~loading /\ toasts = {}

\* C2: while the component is mounted, each slot holds at most one unreleased
\* object URL, and it is the current one of the slot.
C2_OneHandlePerSlot ==
  mounted => /\ Unreleased("generated") \subseteq {generatedImageUrl}
             /\ Unreleased("source") \subseteq {sourcePreviewUrl}

\* C3: the teardown step leaves no created object URL unreleased.
C3_TeardownReleasesAll ==
  [][(mounted /\ ~mounted') => \A h \in DOMAIN handles' : handles'[h].revoked]_vars

\* C10: a step of a generation attempt other than its successful end leaves
\* generatedImageUrl, generatedImageBlob and every object URL as they were.
C10_ErrorsKeepImage ==
  [][(gens' # gens /\ ~\E t \in DOMAIN gens' : Finishes(t) /\ gens'[t].shown = "success")
       => /\ generatedImageUrl' = generatedImageUrl
          /\ generatedImageBlob' = generatedImageBlob
          /\ handles' = handles]_vars

\* an attempt ended in a decode error, and one in an HTTP error, with the
\* image of an earlier attempt still shown and its object URL unreleased
C10_Witness ==
  \E u, t \in DOMAIN gens :
    /\ u < t
    /\ gens[u].shown = "success" /\ gens[t].shown \in {"errDecode", "errApi"}
    /\ gens[t].capUrl = gens[u].url
    /\ generatedImageUrl = gens[u].url
    /\ generatedImageBlob # NoBlob
    /\ ~handles[gens[u].url].revoked

\* C9: a request started while another is pending cancels nothing: a step of
\* one attempt leaves every other attempt as it was, and the step that ends an
\* attempt in success leaves generatedImageUrl and generatedImageBlob set to
\* that attempt's image, its object URL unreleased, whichever attempt wrote
\* before it.
C9_LastWriterWins ==
  [][\A t \in DOMAIN gens :
       (gens'[t] # gens[t])
         => /\ \A u \in DOMAIN gens \ {t} : gens'[u] = gens[u]
            /\ (Finishes(t) /\ gens'[t].shown = "success" /\ mounted)
                 => /\ generatedImageUrl' = gens'[t].url
                    /\ generatedImageBlob' = base64ToBlob(gens'[t].base64.s).blob
                    /\ ~handles'[gens'[t].url].revoked]_vars

\* the second request was started while the first was pending, both ended in
\* success, the first one last, and the slot holds the first one's image
C9_Witness ==
  /\ Len(gens) >= 2
  /\ gens[1].shown = "success" /\ gens[2].shown = "success"
  /\ gens[1].url > gens[2].url
  /\ generatedImageUrl = gens[1].url

\* the same, the second request ending last
C9_WitnessInOrder ==
  /\ Len(gens) >= 2
  /\ gens[1].shown = "success" /\ gens[2].shown = "success"
  /\ gens[2].capUrl = Null
  /\ gens[2].url > gens[1].url
  /\ generatedImageUrl = gens[2].url

\* C8: an attempt issues at most one network call; one that ended in an error
\* has shown an error notification and its loading notification is dismissed;
\* loading is true only while an attempt is pending; and every pending attempt
\* ends, leaving loading false (so that the button accepts the next attempt)
\* when it ended in an error.
C8_ErrorsTerminate ==
  /\ [](\A t \in DOMAIN gens :
          /\ gens[t].calls <= 1
          /\ (Done(t) /\ gens[t].shown # "success")
               => gens[t].shown \in ErrorNotices /\ t \notin toasts)
  /\ []((mounted /\ loading) => \E t \in DOMAIN gens : InFlight(t))
  /\ \A t \in 1..MaxCalls :
       [](InFlight(t) =>
            <>(Done(t) /\ ((gens[t].shown \in ErrorNotices /\ mounted)
                             => ~loading /\ toasts = {})))

\* an attempt that made its call and ended in an error, the component idle again
C8_Witness ==
  \E t \in DOMAIN gens :
    /\ Done(t) /\ gens[t].calls = 1 /\ gens[t].shown \in ErrorNotices
    /\ mounted /\ ~loading /\ toasts = {}
    /\ Len(gens) > t

\* ------------------------------------------------- claims on the extractor

\* attempt t has processed the body of a response with a success status
Answered(t) == Done(t) /\ gens[t].net = "ok"
Body(t) == gens[t].text
Parsed(t) == JSONparse(gens[t].text).v
ValidJSON(t) == JSONparse(gens[t].text).ok

\* the nesting depth of token i: 1 inside the top-level object or array
Opens(toks, i) == Cardinality({j \in 1..(i - 1) : toks[j].t \in {"lb", "ls"}})
Closes(toks, i) == Cardinality({j \in 1..(i - 1) : toks[j].t \in {"rb", "rs"}})
Depth(toks, i) == Opens(toks, i) - Closes(toks, i)
\* token i starts a field "data": "<string>" of the top-level object
TopLevelDataAt(toks, i) ==
  MatchAt(toks, i) /\ toks[i].raw = DATA /\ Depth(toks, i) = 1 /\ toks[1].t = "lb"

\* the string values of the fields named data, anywhere in a value
RECURSIVE DataStrings(_)
DataStrings(v) ==
  {v.members[i].v.s : i \in {j \in DOMAIN v.members :
       v.kind = "obj" /\ v.members[j].k = DATA /\ v.members[j].v.kind = "str"}}
  \cup UNION {DataStrings(v.members[i].v) : i \in DOMAIN v.members}
\* the field names, anywhere in a value
RECURSIVE FieldNames(_)
FieldNames(v) ==
  {v.members[i].k : i \in {j \in DOMAIN v.members : v.kind = "obj"}}
  \cup UNION {FieldNames(v.members[i].v) : i \in DOMAIN v.members}
\* the number of object members, anywhere in a value
RECURSIVE SumMembers(_, _)
RECURSIVE CountMembers(_)
SumMembers(ms, i) ==
  IF i > Len(ms) THEN 0 ELSE CountMembers(ms[i].v) + SumMembers(ms, i + 1)
CountMembers(v) == (IF v.kind = "obj" THEN Len(v.members) ELSE 0) + SumMembers(v.members, 1)

\* the first string value of a field named data in document order: members are
\* visited in the order they are written, each one's value before the next member
RECURSIVE DocOrderData(_)
RECURSIVE DocOrderFrom(_, _, _)
DocOrderFrom(kind, ms, i) ==
  IF i > Len(ms) THEN NullStr
  ELSE IF kind = "obj" /\ ms[i].k = DATA /\ ms[i].v.kind = "str" THEN SomeStr(ms[i].v.s)
  ELSE IF ~DocOrderData(ms[i].v).isNull THEN DocOrderData(ms[i].v)
  ELSE DocOrderFrom(kind, ms, i + 1)
DocOrderData(v) == DocOrderFrom(v.kind, v.members, 1)

\* a field named data appears, with a string value, only inside other objects
NestedOnly(v) ==
  /\ v.kind \in {"obj", "arr"}
  /\ ~(v.kind = "obj" /\ HasKey(v.members, DATA))
  /\ DataStrings(v) # {}
\* every field name is written without escapes, and once per object
PlainKeys(toks) ==
  /\ \A i \in DOMAIN toks : toks[i].t = "str" => Unescape(toks[i].raw) = toks[i].raw
  /\ CountMembers(JSONparse(toks).v) = Cardinality({i \in DOMAIN toks : toks[i].t = "colon"})

C6_NotFound ==
  \A t \in DOMAIN gens :
    (/\ Answered(t)
     /\ \/ ValidJSON(t) /\ DATA \notin FieldNames(Parsed(t))
        \/ ~ValidJSON(t) /\ ~(FirstMatch(Body(t)).matched /\ FirstMatch(Body(t)).group # <<>>))
      => /\ gens[t].shown = "errNotFound"
         /\ ~Truthy(gens[t].base64)
         /\ gens[t].url = Null
         /\ generatedImageUrl = gens[t].capUrl
         /\ Unreleased("generated") \subseteq {gens[t].capUrl}

\* base64 is valid for atob: whitespace apart, characters of the alphabet, then
\* at most two "=" filling the length up to a multiple of four, and the length
\* without them is not one more than a multiple of four
IsBase64(s) ==
  LET w == StripWs(s)
  IN  \E k \in 0..2 :
        /\ k <= Len(w)
        /\ k > 0 => Len(w) % 4 = 0
        /\ \A i \in 1..Len(w) : IF i > Len(w) - k THEN w[i] = "=" ELSE w[i] \in B64Alphabet
        /\ (Len(w) - k) % 4 # 1
\* the number of bytes a valid base64 string of n characters (padding and
\* whitespace apart) decodes to
ByteLength(s) ==
  (Cardinality({i \in DOMAIN s : s[i] \in B64Alphabet}) * 3) \div 4

\* C7: an extracted non-empty string that is not valid base64 ends the attempt
\* with the decode-error notification and no image; a valid one ends it with
\* the success notification and a new image of the decoded length.
C7_DecodeOutcome ==
  \A t \in DOMAIN gens :
    (Answered(t) /\ Truthy(gens[t].base64))
      => IF IsBase64(gens[t].base64.s)
         THEN /\ gens[t].shown = "success"
              /\ gens[t].url # Null
              /\ generatedImageUrl = gens[t].url
              /\ ~handles[gens[t].url].revoked
              /\ generatedImageBlob = [size |-> ByteLength(gens[t].base64.s), type |-> "image/png"]
         ELSE /\ gens[t].shown = "errDecode"
              /\ gens[t].url = Null
              /\ generatedImageUrl = gens[t].capUrl
              /\ generatedImageBlob = NoBlob

\* a string of four characters with padding in the middle: a decode error
C7_Witness ==
  \E t \in DOMAIN gens :
    /\ Answered(t)
    /\ gens[t].base64 = SomeStr(<<"Q", "=", "Q", "Q">>)
    /\ gens[t].shown = "errDecode"
    /\ ~loading /\ toasts = {}

====
